---- MODULE Spec2Model ----
(***************************************************************************)
(* Model of main.py: the Time Zone Scheduler API.                          *)
(*                                                                         *)
(* One server process, running with some host local timezone, handles one  *)
(* HTTP request: POST /calculate-overlap (find_overlap) or GET /           *)
(* (read_root).  Time is counted in whole hours.  A datetime is a record   *)
(* [wall, tzinfo]: the wall-clock reading and the zone it is attached to;  *)
(* a naive datetime has tzinfo = "None".                                   *)
(***************************************************************************)
EXTENDS Integers, Sequences, FiniteSets

\* ------------------------------------------------------------------ bounds
\* Largest number of entries in a request body.
MaxEntries == 2

\* Wall-clock readings of a request run over 0..MaxTime (hours).
MaxTime == 3

\* ------------------------------------------------- the host's zone database
\* Keys the zone database resolves (both without DST, so the offset of a
\* zone does not depend on the instant).
ZoneKeys == {"UTC", "Asia/Tokyo"}

\* datetime.utcoffset() of a datetime attached to zone `key`, in hours.
utcoffset(key) == IF key = "Asia/Tokyo" THEN 9 ELSE 0

\* Keys that are well-formed but name no zone: ZoneInfo raises
\* ZoneInfoNotFoundError.
NotFoundKeys == {"Mars/Phobos"}

\* Keys that are not normalized relative paths (the empty string, "/UTC",
\* "../UTC"): ZoneInfo raises ValueError.
MalformedKeys == {""}

\* The timezone strings a request may carry.
TimezoneStrings == ZoneKeys \cup NotFoundKeys \cup MalformedKeys

\* The zone the server process may be running in (TZ of the host).
HostZones == {"UTC", "Asia/Tokyo"}

\* ------------------------------------------------------------------ values
None == [none |-> TRUE]

\* A naive datetime, as pydantic parses an ISO-8601 string without offset.
naive(t) == [wall |-> t, tzinfo |-> "None"]

\* class AvailabilityInput
AvailabilityInput ==
  [timezone : TimezoneStrings,
   start_local : {naive(t) : t \in 0..MaxTime},
   end_local : {naive(t) : t \in 0..MaxTime}]

\* The request bodies: lists of 0..MaxEntries entries.
Bodies == UNION {[1..n -> AvailabilityInput] : n \in 0..MaxEntries}

VARIABLES
  host_tz,         \* the local timezone of the server process
  route,           \* the endpoint the request addresses
  availabilities,  \* the request body
  pc,              \* "received" or "done"
  response,        \* what the client gets: [status_code, body]
  examined,        \* how many entries the conversion loop took up
  fold_reached,    \* whether the overlap logic (line 64) was reached
  converted_slots, \* find_overlap's local of that name
  overlap_start,   \* find_overlap's local of that name (None if unset)
  overlap_end      \* find_overlap's local of that name (None if unset)

vars == <<host_tz, route, availabilities, pc, response, examined,
          fold_reached, converted_slots, overlap_start, overlap_end>>

\* ----------------------------------------------------------- datetime ops
\* ZoneInfo(key): the zone, or the exception the constructor raises.
ZoneInfo(key) ==
  IF key \in MalformedKeys THEN [raised |-> "ValueError", key |-> key]
  ELSE IF key \notin ZoneKeys THEN [raised |-> "ZoneInfoNotFoundError", key |-> key]
  ELSE [raised |-> "no", key |-> key]

\* dt.astimezone(tz) in a process whose local zone is `host`: a naive dt is
\* presumed to be in the system local zone; the result shows the same
\* instant on tz's clock.
astimezone(dt, tz, host) ==
  LET src == IF dt.tzinfo = "None" THEN host ELSE dt.tzinfo
  IN  [wall |-> dt.wall - utcoffset(src) + utcoffset(tz), tzinfo |-> tz]

\* The absolute instant (hours, UTC) of an aware datetime; aware datetimes
\* compare by it.
Instant(dt) == dt.wall - utcoffset(dt.tzinfo)

\* Variant of max: the running value is kept, the new slot's start ignored.
max_first(a, b) == a

\* Variant of min: the new slot's end replaces the running value.
min_last(a, b) == b

\* max(a, b) and min(a, b) of Python: the first argument wins ties.
max(a, b) == IF Instant(b) > Instant(a) THEN b ELSE a

min(a, b) == IF Instant(b) < Instant(a) THEN b ELSE a

\* ------------------------------------------------------------- responses
OverlapResponse(is_overlap, start_utc, end_utc) ==
  [status_code |-> 200,
   body |-> [is_overlap |-> is_overlap,
             overlap_start_utc |-> start_utc,
             overlap_end_utc |-> end_utc]]

HTTPException(status_code, detail) ==
  [status_code |-> status_code, body |-> [detail |-> detail]]

\* The two errors find_overlap raises.
InsufficientInput ==
  HTTPException(400, <<"At least two availability slots are required.">>)

InvalidTimezone(key) == HTTPException(400, <<"Invalid timezone: ", key>>)

\* An exception the handler does not catch: the framework answers 500.
InternalServerError ==
  [status_code |-> 500, body |-> [detail |-> <<"Internal Server Error">>]]

\* -------------------------------------------------------- find_overlap
\* Variant of too_few: only the empty list is refused.
too_few_empty_only(avail) == Len(avail) = 0

\* Line 46: the length check.
too_few(avail) == Len(avail) = 0 \/ Len(avail) < 2

\* Lines 53-57: one entry to its UTC pair.
convert(slot, host) ==
  <<astimezone(astimezone(slot.start_local, slot.timezone, host), "UTC", host),
    astimezone(astimezone(slot.end_local, slot.timezone, host), "UTC", host)>>

\* Lines 49-59: the conversion loop from entry i on, `acc` the slots so far.
RECURSIVE convert_loop(_, _, _, _)
convert_loop(avail, i, acc, host) ==
  IF i > Len(avail)
  THEN [raised |-> None, converted_slots |-> acc, examined |-> Len(avail)]
  ELSE LET slot == avail[i]
           tz == ZoneInfo(slot.timezone)
       IN  IF tz.raised = "ZoneInfoNotFoundError"
           THEN [raised |-> InvalidTimezone(slot.timezone),
                 converted_slots |-> acc, examined |-> i]
           ELSE IF tz.raised = "ValueError"
           THEN [raised |-> InternalServerError,
                 converted_slots |-> acc, examined |-> i]
           ELSE convert_loop(avail, i + 1, Append(acc, convert(slot, host)), host)

\* Variant of fold: the end of the window is never narrowed.
RECURSIVE fold_start_only(_, _, _, _)
fold_start_only(slots, i, o_start, o_end) ==
  IF i > Len(slots) THEN <<o_start, o_end>>
  ELSE fold_start_only(slots, i + 1, max(o_start, slots[i][1]), o_end)

\* Lines 69-73: the fold from slot i on.
RECURSIVE fold(_, _, _, _)
fold(slots, i, o_start, o_end) ==
  IF i > Len(slots) THEN <<o_start, o_end>>
  ELSE fold(slots, i + 1, max(o_start, slots[i][1]), min(o_end, slots[i][2]))

\* Variant of has_overlap: a zero-width window counts.
has_overlap_or_touch(o_start, o_end) == Instant(o_start) <= Instant(o_end)

\* Line 76: whether a valid overlap exists.
has_overlap(o_start, o_end) == Instant(o_start) < Instant(o_end)

\* Variant of respond: the bounds are filled in whatever the flag.
respond_with_bounds(o_start, o_end) ==
  OverlapResponse(Instant(o_start) < Instant(o_end), o_start, o_end)

\* Lines 76-83: the response for the folded bounds.
respond(o_start, o_end) ==
  IF has_overlap(o_start, o_end)
  THEN OverlapResponse(TRUE, o_start, o_end)
  ELSE OverlapResponse(FALSE, None, None)

\* The whole handler: the response and the handler's locals at its end.
find_overlap(avail, host) ==
  IF too_few(avail)
  THEN [response |-> InsufficientInput, examined |-> 0, fold_reached |-> FALSE,
        converted_slots |-> <<>>, overlap_start |-> None, overlap_end |-> None]
  ELSE LET c == convert_loop(avail, 1, <<>>, host)
       IN  IF c.raised # None
           THEN [response |-> c.raised, examined |-> c.examined,
                 fold_reached |-> FALSE, converted_slots |-> c.converted_slots,
                 overlap_start |-> None, overlap_end |-> None]
           ELSE LET s == c.converted_slots
                    o == fold(s, 2, s[1][1], s[1][2])
                IN  [response |-> respond(o[1], o[2]), examined |-> c.examined,
                     fold_reached |-> TRUE, converted_slots |-> s,
                     overlap_start |-> o[1], overlap_end |-> o[2]]

\* ------------------------------------------------------------ the server
Init ==
  /\ host_tz \in HostZones
  /\ route \in {"POST /calculate-overlap", "GET /"}
  /\ availabilities \in (IF route = "GET /" THEN {<<>>} ELSE Bodies)
  /\ pc = "received"
  /\ response = None
  /\ examined = 0
  /\ fold_reached = FALSE
  /\ converted_slots = <<>>
  /\ overlap_start = None
  /\ overlap_end = None

\* POST /calculate-overlap
FindOverlap ==
  /\ pc = "received"
  /\ route = "POST /calculate-overlap"
  /\ LET r == find_overlap(availabilities, host_tz)
     IN  /\ response' = r.response
         /\ examined' = r.examined
         /\ fold_reached' = r.fold_reached
         /\ converted_slots' = r.converted_slots
         /\ overlap_start' = r.overlap_start
         /\ overlap_end' = r.overlap_end
  /\ pc' = "done"
  /\ UNCHANGED <<host_tz, route, availabilities>>

\* GET /
read_root ==
  /\ pc = "received"
  /\ route = "GET /"
  /\ response' = [status_code |-> 200,
                  body |-> [message |-> "Time Zone Scheduler API is running!"]]
  /\ pc' = "done"
  /\ UNCHANGED <<host_tz, route, availabilities, examined, fold_reached,
                 converted_slots, overlap_start, overlap_end>>

Next == FindOverlap \/ read_root

Spec == Init /\ [][Next]_vars

\* ------------------------------------------------ vocabulary of the claims
\* The request was a POST /calculate-overlap and has been answered.
Posted == pc = "done" /\ route = "POST /calculate-overlap"

\* The timezone string names a zone of the database.
Resolves(key) == key \in ZoneKeys

AllResolve ==
  \A i \in DOMAIN availabilities : Resolves(availabilities[i].timezone)

\* The indices of the entries whose timezone string does not resolve.
BadEntries ==
  {i \in DOMAIN availabilities : ~Resolves(availabilities[i].timezone)}

\* Entry i of the converted slots is malformed: its start is not before its end.
Malformed(i) == Instant(converted_slots[i][1]) >= Instant(converted_slots[i][2])

\* The UTC datetime of instant t.
utc(t) == [wall |-> t, tzinfo |-> "UTC"]

\* The rearrangements of a list of n entries.
Permutations(n) ==
  {p \in [1..n -> 1..n] : \A i, j \in 1..n : i # j => p[i] # p[j]}

\* ------------------------------------------------------------------ claims
\* C1: for a request of 2 or more entries whose timezones all resolve, the
\* start of the overlap is the latest of the normalized starts and its end the
\* earliest of the normalized ends; the response says is_overlap = true with
\* exactly those bounds if and only if that start is strictly before that end,
\* and is_overlap = false without bounds otherwise.
C1_FoldIsLatestStartEarliestEnd ==
  (Posted /\ Len(availabilities) >= 2 /\ AllResolve) =>
    /\ Len(converted_slots) = Len(availabilities)
    /\ LET S == {Instant(converted_slots[i][1]) : i \in DOMAIN converted_slots}
           E == {Instant(converted_slots[i][2]) : i \in DOMAIN converted_slots}
           latest == CHOOSE s \in S : \A t \in S : s >= t
           earliest == CHOOSE e \in E : \A t \in E : e <= t
       IN  response =
             IF latest < earliest
             THEN OverlapResponse(TRUE, utc(latest), utc(earliest))
             ELSE OverlapResponse(FALSE, None, None)

\* C1's case: a partial overlap like [09:00,11:00) and [10:00,12:00), whose
\* overlap runs from the second entry's start to the first entry's end.
C1_Witness ==
  /\ Posted /\ Len(availabilities) = 2 /\ AllResolve
  /\ Instant(converted_slots[2][1]) = Instant(converted_slots[1][1]) + 1
  /\ Instant(converted_slots[1][2]) = Instant(converted_slots[1][1]) + 2
  /\ Instant(converted_slots[2][2]) = Instant(converted_slots[1][1]) + 3
  /\ response = OverlapResponse(TRUE, converted_slots[2][1], converted_slots[1][2])

\* C2: each entry's naive start_local and end_local are read as wall-clock
\* time in the entry's own zone: the normalized instant is the local reading
\* minus the UTC offset of the entry's zone, whatever the host's zone, so two
\* entries with the same readings in zones of different offset normalize to
\* different instants.
C2_LocalTimeReadInEntryZone ==
  (Posted /\ fold_reached) =>
    /\ \A i \in DOMAIN availabilities :
         LET slot == availabilities[i]
         IN  /\ Instant(converted_slots[i][1])
                  = slot.start_local.wall - utcoffset(slot.timezone)
             /\ Instant(converted_slots[i][2])
                  = slot.end_local.wall - utcoffset(slot.timezone)
    /\ \A i, j \in DOMAIN availabilities :
         LET a == availabilities[i]
             b == availabilities[j]
         IN  ( /\ a.start_local = b.start_local
               /\ utcoffset(a.timezone) # utcoffset(b.timezone) )
             => Instant(converted_slots[i][1]) # Instant(converted_slots[j][1])

\* C3: for a request of 2 or more entries with resolvable timezones, the
\* response (flag and both bounds) is the same for every rearrangement of the
\* entry list.
C3_PermutationInvariant ==
  (Posted /\ Len(availabilities) >= 2 /\ AllResolve) =>
    \A p \in Permutations(Len(availabilities)) :
      find_overlap([i \in DOMAIN availabilities |-> availabilities[p[i]]],
                   host_tz).response = response

\* C3's case: two different overlapping entries, the narrower one last.
C3_Witness ==
  /\ Posted /\ Len(availabilities) = 2 /\ AllResolve
  /\ Instant(converted_slots[1][1]) < Instant(converted_slots[2][1])
  /\ Instant(converted_slots[2][2]) < Instant(converted_slots[1][2])
  /\ response.body.is_overlap

\* C4: for a request of two entries with identical (zone, start, end), read
\* for intervals proper (start before end; the other ones are C10's), the
\* response has is_overlap = true and its bounds are the entry's bounds
\* converted from the entry's zone to UTC.
C4_IdenticalEntriesOverlapFully ==
  ( /\ Posted /\ Len(availabilities) = 2
    /\ availabilities[1] = availabilities[2]
    /\ Resolves(availabilities[1].timezone)
    /\ availabilities[1].start_local.wall < availabilities[1].end_local.wall ) =>
    LET slot == availabilities[1]
    IN  response =
          OverlapResponse(TRUE,
                          utc(slot.start_local.wall - utcoffset(slot.timezone)),
                          utc(slot.end_local.wall - utcoffset(slot.timezone)))

\* C5: whenever the folded bounds are equal, the response is
\* is_overlap = false: a zero-width intersection never counts as an overlap.
C5_EqualBoundsNoOverlap ==
  (Posted /\ fold_reached /\ Instant(overlap_start) = Instant(overlap_end)) =>
    response = OverlapResponse(FALSE, None, None)

\* C5's case: two well-formed intervals that only touch, like [09:00,10:00)
\* and [10:00,11:00).
C5_Witness ==
  /\ Posted /\ Len(availabilities) = 2 /\ fold_reached
  /\ ~Malformed(1) /\ ~Malformed(2)
  /\ Instant(converted_slots[1][2]) = Instant(converted_slots[2][1])
  /\ Instant(overlap_start) = Instant(overlap_end)
  /\ response.body.is_overlap = FALSE

\* C6: a request with fewer than 2 entries fails with InsufficientInput
\* (HTTP 400) whatever the entries hold: the length check comes before any
\* timezone resolution, so no entry is examined and no overlap is computed.
C6_TooFewEntriesInsufficientInput ==
  (Posted /\ Len(availabilities) < 2) =>
    /\ response = InsufficientInput
    /\ response.status_code = 400
    /\ examined = 0
    /\ ~fold_reached

\* C6's case: a single entry whose timezone does not resolve.
C6_Witness ==
  /\ Posted /\ Len(availabilities) = 1
  /\ ~Resolves(availabilities[1].timezone)
  /\ response = InsufficientInput

\* C7: a request holding an entry whose timezone string does not resolve
\* fails with InvalidTimezone naming such an entry's string, never with an
\* overlap result, whatever the other entries are (read for requests that
\* pass the length check, which C6 puts first; which of several bad entries
\* is named is C8's).
C7_BadTimezoneAlwaysInvalidTimezone ==
  (Posted /\ Len(availabilities) >= 2 /\ BadEntries # {}) =>
    \E i \in BadEntries : response = InvalidTimezone(availabilities[i].timezone)

\* C8: in a request of 2 or more entries, processing stops at the first entry
\* whose timezone does not resolve: the error names the string of the
\* lowest-indexed such entry, no later entry is examined and the fold is not
\* reached.
C8_StopsAtFirstBadTimezone ==
  (Posted /\ Len(availabilities) >= 2 /\ BadEntries # {}) =>
    LET k == CHOOSE i \in BadEntries : \A j \in BadEntries : i <= j
    IN  /\ response = InvalidTimezone(availabilities[k].timezone)
        /\ examined = k
        /\ ~fold_reached

\* C9: in every response find_overlap returns, both bounds are present exactly
\* when is_overlap is true and both are null exactly when it is false; when
\* present, the start is strictly earlier than the end.
C9_BoundsPresentIffOverlap ==
  (Posted /\ response.status_code = 200) =>
    LET b == response.body
    IN  /\ b.is_overlap \in BOOLEAN
        /\ b.is_overlap <=> b.overlap_start_utc # None
        /\ b.is_overlap <=> b.overlap_end_utc # None
        /\ b.is_overlap =>
             Instant(b.overlap_start_utc) < Instant(b.overlap_end_utc)

\* C9's case: a response without overlap although every entry is well-formed
\* (the intervals are disjoint).
C9_Witness ==
  /\ Posted /\ response.status_code = 200 /\ Len(availabilities) = 2
  /\ ~Malformed(1) /\ ~Malformed(2)
  /\ Instant(converted_slots[1][2]) < Instant(converted_slots[2][1])
  /\ response.body.is_overlap = FALSE
  /\ response.body.overlap_start_utc = None
  /\ response.body.overlap_end_utc = None

\* C10: a request of 2 or more entries with resolvable timezones in which some
\* normalized interval has start >= end gets no error and is_overlap = false,
\* whatever the other intervals are and wherever the malformed one sits.
C10_MalformedEntryMeansNoOverlap ==
  ( /\ Posted /\ Len(availabilities) >= 2 /\ AllResolve
    /\ \E i \in DOMAIN converted_slots : Malformed(i) ) =>
    response = OverlapResponse(FALSE, None, None)

\* C10's case: a malformed last entry after a well-formed one that contains
\* both of its readings.
C10_Witness ==
  /\ Posted /\ Len(availabilities) = 2 /\ AllResolve
  /\ ~Malformed(1) /\ Malformed(2)
  /\ Instant(converted_slots[1][1]) <= Instant(converted_slots[2][2])
  /\ Instant(converted_slots[2][1]) <= Instant(converted_slots[1][2])
  /\ response = OverlapResponse(FALSE, None, None)

====
